---- MODULE Spec2Model ----
(***************************************************************************)
(* Model of the restreamer relay (src/src/main.rs): a producer listener    *)
(* and a consumer listener hand accepted sockets to setup(), which builds  *)
(* a Peer around a TSPacket framer and spawns it.  Producer peers chunk    *)
(* their byte stream into buffer_size frames and broadcast each frame into *)
(* the queue of every entry of Shared.peers; consumer peers drain their    *)
(* queue into the write buffer and flush it to their socket.               *)
(*                                                                         *)
(* A connection is identified by the order of its accept (1, 2, ...).  The *)
(* i-th byte a producer c receives is the value Byte(c, i): the code never *)
(* inspects a byte, so distinct labels lose no behaviour and make every    *)
(* duplication, loss or reordering visible.                                *)
(***************************************************************************)
EXTENDS Integers, Sequences, FiniteSets, TLC

\* ---- bounds of the model ------------------------------------------------
MaxConns == 3
MaxLockConns == 4
MaxFairConns == 2
NumAddrs == 2
MaxLen == 3
MaxFrameSize == 2

\* BytesMut::new() starts inline; its capacity is 31 bytes on 64-bit targets
InitialCapacity == 31

Max(a, b) == IF a >= b THEN a ELSE b

Conns == 1..Max(MaxConns, Max(MaxLockConns, MaxFairConns))
Addrs == 1..NumAddrs

VARIABLES
    buffer_size,  \* Config.buffer, handed to every TSPacket
    peers,        \* Shared.peers: address -> connection owning the queue
    poisoned,     \* the registry mutex was poisoned by a panic under lock
    nextId,       \* number of sockets accepted so far, plus one
    role,         \* Peer.producer: "none" | "producer" | "consumer"
    addr,         \* Peer.addr
    st,           \* "none" | "live" | "done" | "gone"
    result,       \* "pending" | "ok" | "err" | "panic"
    runnable,     \* the task is notified and will be polled
    rxWait,       \* the task is parked in its queue (rx.poll() -> NotReady)
    ioWait,       \* the task is parked in the reactor for its socket
    queue,        \* consumer: frames sent into tx and not yet received
    rd,           \* TSPacket.rd
    wr,           \* TSPacket.wr
    wrRem,        \* TSPacket.wr.remaining_mut()
    readN,        \* producer socket: bytes read_buf has returned so far
    peerClosed,   \* producer socket: a read has returned zero bytes
    sock,         \* socket: "open" | "blocked" | "hup" | "reset" | "closed"
    out,          \* consumer socket: bytes accepted by socket.write
    emitted,      \* history: frames TSPacket::poll has yielded
    hist,         \* history: frames ever sent into the consumer's queue
    regAt,        \* history: frames each producer had emitted when the Peer was built
    deregs,       \* history: number of peers.remove calls made by the Peer
    lock,         \* Mutex<Shared>: the connection holding the guard, or 0
    busy,         \* the producers inside the for loop of their broadcast
    visited,      \* broadcast loop: the keys the iterator has passed
    bsnap         \* history: the registry when the broadcast took the lock

vars == <<buffer_size, peers, poisoned, nextId, role, addr, st, result,
          runnable, rxWait, ioWait, queue, rd, wr, wrRem, readN,
          peerClosed, sock, out, emitted, hist, regAt, deregs,
          lock, busy, visited, bsnap>>

connVars == <<role, addr, regAt>>
sockVars == <<readN, peerClosed, sock, out>>
bufVars == <<rd, wr, wrRem>>
lockVars == <<lock, busy, visited, bsnap>>

\* ---- helpers ------------------------------------------------------------
Byte(c, i) == c * 100 + i

RECURSIVE Flatten(_)
Flatten(fs) == IF fs = <<>> THEN <<>> ELSE Head(fs) \o Flatten(Tail(fs))

\* bytes i+1 .. j of the stream that producer c's remote end sends
StreamBytes(c, i, j) == [k \in 1..(j - i) |-> Byte(c, i + k)]

\* the Peer value exists: constructed, Drop::drop has not run yet
Live(c) == st[c] \in {"live", "done"}

\* the Rx half of the connection's queue has not been dropped yet
RxAlive(c) == st[c] \in {"live", "done"}

\* ---- Shared.peers: a HashMap<SocketAddr, Tx> ----------------------------
\* a slip: the sender is stored under another key than the peer address
InsertWrongKey(reg, a, c) ==
    [x \in (DOMAIN reg) \cup {(a % NumAddrs) + 1} |->
        IF x = (a % NumAddrs) + 1 THEN c ELSE reg[x]]

Insert(reg, a, c) ==
    [x \in (DOMAIN reg) \cup {a} |-> IF x = a THEN c ELSE reg[x]]

Remove(reg, a) == [x \in (DOMAIN reg) \ {a} |-> reg[x]]

\* the connections whose queue has a sender stored in the registry
Registered(reg) == {reg[x] : x \in DOMAIN reg}

\* ---- mpsc::unbounded() --------------------------------------------------
\* a slip: the new queue starts with the frame broadcast last
UnboundedReplay(q, c) ==
    [q EXCEPT ![c] =
        IF \E p \in Conns : emitted[p] # <<>>
        THEN LET p == CHOOSE x \in Conns : emitted[x] # <<>>
             IN  <<emitted[p][Len(emitted[p])]>>
        ELSE <<>>]

Unbounded(q, c) == [q EXCEPT ![c] = <<>>]

\* tx.unbounded_send(packet.clone()) for every tx in `targets`
SendAll(q, targets, frame) ==
    [c \in Conns |-> IF c \in targets THEN Append(q[c], frame) ELSE q[c]]

\* ---- TSPacket ------------------------------------------------------------
\* BytesMut::reserve: afterwards at least `additional` bytes can be put
Reserve(rem, additional) == Max(rem, additional)

\* a slip: the comparison lets an exactly full buffer through
CanSliceAtLeast(buf, size) == Len(buf) >= size

\* self.rd.len() > self.buffer_size
CanSlice(buf, size) == Len(buf) > size

\* a slip: the last byte split off also stays in the buffer
SplitToKeepsLast(buf, n) ==
    <<SubSeq(buf, 1, n), SubSeq(buf, Max(n, 1), Len(buf))>>

\* self.rd.split_to(n): <<the first n bytes, what stays in the buffer>>
SplitTo(buf, n) == <<SubSeq(buf, 1, n), SubSeq(buf, n + 1, Len(buf))>>

\* a slip: the frame goes in front of what the buffer holds
BufferInFront(w, pkt) == pkt \o w

\* TSPacket::buffer: wr.reserve(pkt.len()); wr.put(pkt)
Buffer(w, pkt) == w \o pkt

\* the drain loop of the consumer branch: <<queue, wr, remaining_mut>>
RECURSIVE Drain(_, _, _, _)
Drain(q, w, rem, size) ==
    IF rem > 0 /\ q # <<>>
    THEN Drain(Tail(q), Buffer(w, Head(q)),
               Reserve(rem, size * 4) - Len(Head(q)), size)
    ELSE <<q, w, rem>>

\* ---- initial state: main() before any accept ----------------------------
Init ==
    /\ buffer_size \in 1..MaxFrameSize
    /\ peers = [x \in {} |-> 0]
    /\ poisoned = FALSE
    /\ nextId = 1
    /\ role = [c \in Conns |-> "none"]
    /\ addr = [c \in Conns |-> 1]
    /\ st = [c \in Conns |-> "none"]
    /\ result = [c \in Conns |-> "pending"]
    /\ runnable = [c \in Conns |-> FALSE]
    /\ rxWait = [c \in Conns |-> FALSE]
    /\ ioWait = [c \in Conns |-> FALSE]
    /\ queue = [c \in Conns |-> <<>>]
    /\ rd = [c \in Conns |-> <<>>]
    /\ wr = [c \in Conns |-> <<>>]
    /\ wrRem = [c \in Conns |-> InitialCapacity]
    /\ readN = [c \in Conns |-> 0]
    /\ peerClosed = [c \in Conns |-> FALSE]
    /\ sock = [c \in Conns |-> "open"]
    /\ out = [c \in Conns |-> <<>>]
    /\ emitted = [c \in Conns |-> <<>>]
    /\ hist = [c \in Conns |-> <<>>]
    /\ regAt = [c \in Conns |-> [p \in Conns |-> 0]]
    /\ deregs = [c \in Conns |-> 0]
    /\ lock = 0
    /\ busy = {}
    /\ visited = [c \in Conns |-> {}]
    /\ bsnap = [c \in Conns |-> [x \in {} |-> 0]]


\* ---- task notification --------------------------------------------------
\* the connections whose last Tx leaves the registry between reg and reg2:
\* dropping the last sender notifies the task parked in the queue
TxDropped(reg, reg2) == Registered(reg) \ Registered(reg2)

\* a socket event notifies the task parked in the reactor for that socket
SocketEvent(c) ==
    /\ runnable' = [runnable EXCEPT ![c] = @ \/ (ioWait[c] /\ st[c] = "live")]
    /\ ioWait' = [ioWait EXCEPT ![c] = FALSE]

\* a queue event (a send, or the drop of the last sender) notifies the tasks
\* parked in the queues of `cs`
QueueEvent(cs) ==
    /\ runnable' = [c \in Conns |->
                      runnable[c] \/ (c \in cs /\ rxWait[c] /\ st[c] = "live")]
    /\ rxWait' = [c \in Conns |-> rxWait[c] /\ c \notin cs]

\* ---- setup(): TSPacket::new, Peer::new, tokio::spawn --------------------
\* The listener hands over a socket whose peer address is a.  Two sockets of
\* one listener carry the same peer address only after the kernel has torn
\* the older connection down (hang-up or reset), while its Peer may still be
\* waiting to be polled or dropped.
AddressFree(r, a) ==
    \A d \in Conns :
        (role[d] = r /\ addr[d] = a /\ st[d] \in {"live", "done"})
            => sock[d] \in {"hup", "reset"}

\* a slip: the registry is used without its lock
TryLockAlways(l) == TRUE

\* state.lock(): the guard is handed out when no other task holds it
TryLock(l) == l = 0

PeerNew(c, producer, a) ==
    /\ role' = [role EXCEPT ![c] = IF producer THEN "producer" ELSE "consumer"]
    /\ addr' = [addr EXCEPT ![c] = a]
    /\ queue' = Unbounded(queue, c)
    /\ peers' = IF producer THEN peers ELSE Insert(peers, a, c)
    /\ regAt' = [regAt EXCEPT ![c] = [p \in Conns |->
                                        IF producer THEN 0 ELSE Len(emitted[p])]]

\* setup() for the next socket of a listener
Setup(producer, a) ==
    /\ nextId \in Conns
    /\ producer \/ (~poisoned /\ TryLock(lock))
    /\ AddressFree(IF producer THEN "producer" ELSE "consumer", a)
    /\ PeerNew(nextId, producer, a)
    /\ nextId' = nextId + 1
    /\ st' = [st EXCEPT ![nextId] = "live"]
    /\ runnable' = [c \in Conns |->
                      \/ c = nextId
                      \/ runnable[c]
                      \/ (c \in TxDropped(peers, peers') /\ rxWait[c]
                            /\ st[c] = "live")]
    /\ rxWait' = [c \in Conns |-> rxWait[c] /\ c \notin TxDropped(peers, peers')]
    /\ UNCHANGED <<buffer_size, poisoned, result, ioWait, bufVars, sockVars,
                   emitted, hist, deregs, lockVars>>

Accept(producer, a) == nextId <= MaxConns /\ Setup(producer, a)

\* ---- the remote ends and the kernel -------------------------------------
\* the consumer's connection is reset: writes fail from now on
SockReset(c) ==
    /\ role[c] = "consumer" /\ st[c] = "live"
    /\ sock[c] \in {"open", "blocked"}
    /\ sock' = [sock EXCEPT ![c] = "reset"]
    /\ SocketEvent(c)
    /\ UNCHANGED <<buffer_size, peers, poisoned, nextId, connVars, st, result,
                   rxWait, queue, bufVars, readN, peerClosed, out,
                   emitted, hist, deregs, lockVars>>

\* the reactor learns that the consumer's remote end has hung up
SockHup(c) ==
    /\ role[c] = "consumer" /\ st[c] = "live"
    /\ sock[c] \in {"open", "blocked"}
    /\ sock' = [sock EXCEPT ![c] = "hup"]
    /\ SocketEvent(c)
    /\ UNCHANGED <<buffer_size, peers, poisoned, nextId, connVars, st, result,
                   rxWait, queue, bufVars, readN, peerClosed, out,
                   emitted, hist, deregs, lockVars>>

\* the consumer's socket can take bytes again
SockWritable(c) ==
    /\ role[c] = "consumer" /\ st[c] = "live"
    /\ sock[c] = "blocked"
    /\ sock' = [sock EXCEPT ![c] = "open"]
    /\ SocketEvent(c)
    /\ UNCHANGED <<buffer_size, peers, poisoned, nextId, connVars, st, result,
                   rxWait, queue, bufVars, readN, peerClosed, out,
                   emitted, hist, deregs, lockVars>>


\* ---- impl Stream for TSPacket, and the producer branch of Peer::poll ----
\* What the socket gives one call of fill_read_buf: k more bytes of the
\* stream, and then the result that ends the loop: "block" (WouldBlock),
\* "eof" (a read of zero bytes) or "err" (an I/O error).  After the end of
\* the stream every read returns zero bytes.
ReadResults(c) ==
    IF peerClosed[c] THEN {<<0, "eof">>}
    ELSE {<<k, e>> : k \in 0..(MaxLen - readN[c]), e \in {"block", "eof", "err"}}

\* fill_read_buf: self.rd after the reads that returned k bytes in all
FillReadBuf(c, k) == rd[c] \o StreamBytes(c, readN[c], readN[c] + k)

\* a slip: the loop stops one entry early
TargetsButOne(reg) ==
    LET r == Registered(reg)
    IN  IF Cardinality(r) > 1
        THEN r \ {CHOOSE x \in r : \A y \in r : y <= x}
        ELSE r

\* the for loop over the registry: every stored sender gets the frame
Targets(reg) == Registered(reg)

\* One turn of `while let Async::Ready(pkt) = self.packets.poll()?` with the
\* broadcast of the frame it yields.
ProducerStep(c, k, end) ==
    /\ role[c] = "producer" /\ st[c] = "live"
    /\ <<k, end>> \in ReadResults(c)
    /\ UNCHANGED <<buffer_size, nextId, connVars, wr, wrRem, out, deregs,
                   peers, ioWait, lockVars>>
    /\ readN' = [readN EXCEPT ![c] = @ + k]
    /\ peerClosed' = [peerClosed EXCEPT ![c] = @ \/ end = "eof"]
    /\ sock' = [sock EXCEPT ![c] = IF end = "err" THEN "reset" ELSE @]
    /\ IF end = "err"
       THEN \* read_buf fails: poll returns the error, whatever was read
            /\ rd' = [rd EXCEPT ![c] = FillReadBuf(c, k)]
            /\ st' = [st EXCEPT ![c] = "done"]
            /\ result' = [result EXCEPT ![c] = "err"]
            /\ UNCHANGED <<poisoned, runnable, rxWait, queue, emitted,
                           hist>>
       ELSE LET buf == FillReadBuf(c, k)
                sock_closed == (end = "eof")
            IN  IF CanSlice(buf, buffer_size)
                THEN LET cut == SplitTo(buf, buffer_size)
                         pkt == cut[1]
                         tgt == Targets(peers)
                         dead == {d \in tgt : ~RxAlive(d)}
                     IN  /\ rd' = [rd EXCEPT ![c] = cut[2]]
                         /\ emitted' = [emitted EXCEPT ![c] = Append(@, pkt)]
                         /\ IF poisoned \/ dead # {}
                            THEN \* lock().unwrap() or unbounded_send().unwrap()
                                 \* panics; the senders visited before got pkt
                                 /\ \E got \in SUBSET (tgt \ dead) :
                                      /\ got = {} \/ ~poisoned
                                      /\ queue' = SendAll(queue, got, pkt)
                                      /\ hist' = SendAll(hist, got, pkt)
                                      /\ QueueEvent(got)
                                 /\ poisoned' = TRUE
                                 /\ st' = [st EXCEPT ![c] = "done"]
                                 /\ result' = [result EXCEPT ![c] = "panic"]
                            ELSE /\ queue' = SendAll(queue, tgt, pkt)
                                 /\ hist' = SendAll(hist, tgt, pkt)
                                 /\ QueueEvent(tgt)
                                 /\ UNCHANGED <<poisoned, st, result>>
                ELSE /\ rd' = [rd EXCEPT ![c] = buf]
                     /\ IF sock_closed
                        THEN \* Async::Ready(None): end of stream
                             /\ st' = [st EXCEPT ![c] = "done"]
                             /\ result' = [result EXCEPT ![c] = "ok"]
                        ELSE \* Async::NotReady: parked until readable
                             UNCHANGED <<st, result>>
                     /\ UNCHANGED <<poisoned, runnable, rxWait, queue,
                                    emitted, hist>>

\* ---- the consumer branch of Peer::poll, with TSPacket::poll_flush -------
\* Outcome of the write loop of poll_flush on a buffer w when the socket
\* takes n bytes before it stops: "ready" (buffer empty), "block"
\* (WouldBlock), "err" (I/O error), "zero" (a write returned 0).
FlushOutcomes(w, state) ==
    IF w = <<>> THEN {<<0, "ready">>}
    ELSE IF state = "reset" THEN {<<0, "err">>}
    ELSE IF state = "blocked" THEN {<<0, "block">>}
    ELSE {<<Len(w), "ready">>}
         \cup {<<n, e>> : n \in 0..(Len(w) - 1), e \in {"block", "zero"}}

\* a slip: a socket that is not ready leaves the task unregistered
WriteInterestNone(state, outcome) == FALSE

\* poll_write_ready() returning NotReady and write() returning WouldBlock
\* register the task for the socket's next readiness event
WriteInterest(state, outcome) == state = "blocked" \/ outcome = "block"

\* a slip: the readiness is not looked at
HangupIgnored(state) == FALSE

\* poll_write_ready() is Ready and UnixReady::from(val).is_hup()
HangupDetected(state) == state = "hup"

ConsumerPoll(c) ==
    /\ role[c] = "consumer" /\ st[c] = "live" /\ runnable[c]
    /\ LET d == Drain(queue[c], wr[c], wrRem[c], buffer_size)
           \* rx.poll() returned NotReady: queue empty, a sender still stored
           parked == d[3] > 0 /\ d[1] = <<>> /\ c \in Registered(peers)
           \* wr.remaining_mut() <= 0: task::current().notify()
           again == d[3] <= 0
       IN  /\ queue' = [queue EXCEPT ![c] = d[1]]
           /\ wrRem' = [wrRem EXCEPT ![c] = d[3]]
           /\ rxWait' = [rxWait EXCEPT ![c] = @ \/ parked]
           /\ IF HangupDetected(sock[c])
              THEN \* poll_write_ready reports the hang-up: Ready(false)
                   /\ wr' = [wr EXCEPT ![c] = d[2]]
                   /\ st' = [st EXCEPT ![c] = "done"]
                   /\ result' = [result EXCEPT ![c] = "ok"]
                   /\ runnable' = [runnable EXCEPT ![c] = FALSE]
                   /\ UNCHANGED <<ioWait, sock, out>>
              ELSE \E o \in FlushOutcomes(d[2], sock[c]) :
                   LET cut == SplitTo(d[2], o[1])
                   IN  /\ out' = [out EXCEPT ![c] = @ \o cut[1]]
                       /\ wr' = [wr EXCEPT ![c] = cut[2]]
                       /\ sock' = [sock EXCEPT ![c] =
                                     IF o[2] = "block" THEN "blocked" ELSE @]
                       /\ ioWait' = [ioWait EXCEPT ![c] =
                                     @ \/ WriteInterest(sock[c], o[2])]
                       /\ st' = [st EXCEPT ![c] =
                                     IF o[2] \in {"err", "zero"} THEN "done" ELSE @]
                       /\ result' = [result EXCEPT ![c] =
                                     CASE o[2] = "err" -> "err"
                                       [] o[2] = "zero" -> "panic"
                                       [] OTHER -> @]
                       /\ runnable' = [runnable EXCEPT ![c] =
                                     again /\ o[2] \in {"ready", "block"}]
    /\ UNCHANGED <<buffer_size, peers, poisoned, nextId, connVars, rd, readN,
                   peerClosed, emitted, hist, deregs, lockVars>>

\* ---- impl Drop for Peer -------------------------------------------------
\* drop(): self.state.lock().unwrap().peers.remove(&self.addr); the fields
\* (the Rx half, the socket) are released right after it.  Between the two
\* no sender of this queue is stored under any key, so no other task can
\* tell the two moments apart and they are one step here.
\* a slip: drop() leaves the registry alone
DropRemoveNothing(reg, c) == reg

DropRemove(reg, c) == Remove(reg, addr[c])

Drop(c) ==
    /\ st[c] = "done"
    /\ TryLock(lock)
    /\ st' = [st EXCEPT ![c] = "gone"]
    /\ peers' = IF poisoned THEN peers ELSE DropRemove(peers, c)
    /\ deregs' = [deregs EXCEPT ![c] = IF poisoned THEN @ ELSE @ + 1]
    /\ runnable' = [d \in Conns |->
                      /\ d # c
                      /\ \/ runnable[d]
                         \/ (d \in TxDropped(peers, peers') /\ rxWait[d]
                               /\ st[d] = "live")]
    /\ rxWait' = [d \in Conns |->
                      rxWait[d] /\ d # c /\ d \notin TxDropped(peers, peers')]
    \* the fields of the Peer are released with it
    /\ ioWait' = [ioWait EXCEPT ![c] = FALSE]
    /\ queue' = [queue EXCEPT ![c] = <<>>]
    /\ rd' = [rd EXCEPT ![c] = <<>>]
    /\ wr' = [wr EXCEPT ![c] = <<>>]
    /\ wrRem' = [wrRem EXCEPT ![c] = 0]
    /\ readN' = [readN EXCEPT ![c] = 0]
    /\ peerClosed' = [peerClosed EXCEPT ![c] = FALSE]
    /\ sock' = [sock EXCEPT ![c] = "closed"]
    /\ out' = [out EXCEPT ![c] = <<>>]
    /\ emitted' = [emitted EXCEPT ![c] = <<>>]
    /\ hist' = [hist EXCEPT ![c] = <<>>]
    /\ addr' = [addr EXCEPT ![c] = 1]
    /\ regAt' = [regAt EXCEPT ![c] = [p \in Conns |-> 0]]
    /\ UNCHANGED <<buffer_size, poisoned, nextId, role, result, lockVars>>

\* ---- the system ---------------------------------------------------------
Next ==
    \/ \E producer \in BOOLEAN, a \in Addrs : Accept(producer, a)
    \/ \E c \in Conns : SockReset(c)
    \/ \E c \in Conns : SockHup(c)
    \/ \E c \in Conns : SockWritable(c)
    \/ \E c \in Conns, k \in 0..MaxLen, end \in {"block", "eof", "err"} :
          ProducerStep(c, k, end)
    \/ \E c \in Conns : ConsumerPoll(c)
    \/ \E c \in Conns : Drop(c)

Spec == Init /\ [][Next]_vars

\* ---- the broadcast under the registry lock, one send per step -----------
\* `for (_, tx) in &self.state.lock().unwrap().peers { tx.unbounded_send() }`
\* taken apart: the guard is a temporary of the loop's iterator expression
\* and lives until the loop ends.  Peer::new and Drop::drop take the same
\* lock for their insert and remove.

\* a slip: the guard is dropped after every send
LockPerSend(c, rest) == 0

\* the holder of the lock after a send, `rest` being the keys still to visit
LockAfterSend(c, rest) == IF rest = {} THEN 0 ELSE c

NoSnap == [x \in {} |-> 0]

\* The registry and the order of the enqueues do not depend on how the
\* consumers write, so this system keeps the environment small: a stream is
\* one frame and a byte and has no read error, a consumer is polled when
\* its peer has hung up, and at most half of the connections have one role.
OneFrame(c, k) == readN[c] + k <= buffer_size + 1

\* the turn of the producer's loop that yields a frame: the frame is split
\* off and the lock is taken
BroadcastBegin(c, k, end) ==
    /\ role[c] = "producer" /\ st[c] = "live" /\ c \notin busy
    /\ <<k, end>> \in ReadResults(c) /\ end # "err" /\ OneFrame(c, k)
    /\ CanSlice(FillReadBuf(c, k), buffer_size)
    /\ TryLock(lock)
    /\ LET cut == SplitTo(FillReadBuf(c, k), buffer_size)
       IN  /\ rd' = [rd EXCEPT ![c] = cut[2]]
           /\ emitted' = [emitted EXCEPT ![c] = Append(@, cut[1])]
    /\ readN' = [readN EXCEPT ![c] = @ + k]
    /\ peerClosed' = [peerClosed EXCEPT ![c] = @ \/ end = "eof"]
    /\ IF poisoned
       THEN \* lock().unwrap() panics
            /\ st' = [st EXCEPT ![c] = "done"]
            /\ result' = [result EXCEPT ![c] = "panic"]
            /\ UNCHANGED lockVars
       ELSE /\ lock' = LockAfterSend(c, DOMAIN peers)
            /\ busy' = IF DOMAIN peers = {} THEN busy ELSE busy \cup {c}
            /\ bsnap' = [bsnap EXCEPT ![c] =
                            IF DOMAIN peers = {} THEN NoSnap ELSE peers]
            /\ UNCHANGED <<st, result, visited>>
    /\ UNCHANGED <<buffer_size, peers, poisoned, nextId, connVars, runnable,
                   rxWait, ioWait, queue, wr, wrRem, sock, out, hist, deregs>>

\* one turn of the for loop: the sender stored under key a gets the frame
BroadcastSend(c, a) ==
    /\ c \in busy
    /\ a \in DOMAIN peers \ visited[c]
    /\ LET d == peers[a]
           pkt == emitted[c][Len(emitted[c])]
           rest == DOMAIN peers \ (visited[c] \cup {a})
       IN  IF RxAlive(d)
           THEN /\ queue' = SendAll(queue, {d}, pkt)
                /\ hist' = SendAll(hist, {d}, pkt)
                /\ QueueEvent({d})
                /\ lock' = LockAfterSend(c, rest)
                /\ busy' = IF rest = {} THEN busy \ {c} ELSE busy
                /\ visited' = [visited EXCEPT ![c] =
                                  IF rest = {} THEN {} ELSE @ \cup {a}]
                /\ bsnap' = [bsnap EXCEPT ![c] =
                                  IF rest = {} THEN NoSnap ELSE @]
                /\ UNCHANGED <<poisoned, st, result>>
           ELSE \* unbounded_send().unwrap() panics with the guard held
                /\ poisoned' = TRUE
                /\ st' = [st EXCEPT ![c] = "done"]
                /\ result' = [result EXCEPT ![c] = "panic"]
                /\ lock' = 0
                /\ busy' = busy \ {c}
                /\ visited' = [visited EXCEPT ![c] = {}]
                /\ bsnap' = [bsnap EXCEPT ![c] = NoSnap]
                /\ UNCHANGED <<queue, hist, runnable, rxWait>>
    /\ UNCHANGED <<buffer_size, peers, nextId, connVars, ioWait, bufVars,
                   sockVars, emitted, deregs>>

\* a turn of the producer's loop that yields no frame
ProducerIdle(c, k, end) ==
    /\ c \notin busy /\ end # "err" /\ OneFrame(c, k)
    /\ ProducerStep(c, k, end)
    /\ emitted' = emitted

NumRole(r) == Cardinality({c \in Conns : role[c] = r})

AcceptLock(producer, a) ==
    /\ nextId <= MaxLockConns
    /\ NumRole(IF producer THEN "producer" ELSE "consumer") * 2 < MaxLockConns
    /\ Setup(producer, a)

ConsumerEnd(c) == ConsumerPoll(c) /\ st'[c] = "done" /\ result'[c] = "ok"

NextLock ==
    \/ \E producer \in BOOLEAN, a \in Addrs : AcceptLock(producer, a)
    \/ \E c \in Conns : SockHup(c)
    \/ \E c \in Conns, k \in 0..MaxLen, end \in {"block", "eof"} :
          ProducerIdle(c, k, end)
    \/ \E c \in Conns, k \in 0..MaxLen, end \in {"block", "eof"} :
          BroadcastBegin(c, k, end)
    \/ \E c \in Conns, a \in Addrs : BroadcastSend(c, a)
    \/ \E c \in Conns : ConsumerEnd(c)
    \/ \E c \in Conns : Drop(c)

SpecLock == Init /\ [][NextLock]_vars

\* ---- the system with its scheduling -------------------------------------
\* The executor polls a notified task, the reactor delivers a readiness
\* event of a blocked socket, and a socket that is polled writable again
\* and again takes at least one byte at some time.
FairConns == 1..MaxFairConns

AcceptFair(producer, a) == nextId \in FairConns /\ Setup(producer, a)

NextFair ==
    \/ \E producer \in BOOLEAN, a \in Addrs : AcceptFair(producer, a)
    \/ \E c \in Conns : SockReset(c)
    \/ \E c \in Conns : SockHup(c)
    \/ \E c \in Conns : SockWritable(c)
    \/ \E c \in Conns, k \in 0..MaxLen, end \in {"block", "eof", "err"} :
          ProducerStep(c, k, end)
    \/ \E c \in Conns : ConsumerPoll(c)
    \/ \E c \in Conns : Drop(c)

Fairness ==
    \A c \in FairConns :
        /\ WF_vars(ConsumerPoll(c))
        /\ WF_vars(SockWritable(c))
        /\ SF_vars(ConsumerPoll(c) /\ out'[c] # out[c])

SpecFair == Init /\ [][NextFair]_vars /\ Fairness


\* ---- reading a labelled byte back ---------------------------------------
ByteSrc(b) == b \div 100
BytePos(b) == b % 100

\* the number (1, 2, ...) of the buffer_size chunk of its stream a byte is in
ChunkOf(b) == (BytePos(b) - 1) \div buffer_size + 1

\* the i-th buffer_size chunk of the stream of producer c
Chunk(c, i) == StreamBytes(c, (i - 1) * buffer_size, i * buffer_size)

LiveConsumers == {c \in Conns : role[c] = "consumer" /\ Live(c)}
LiveProducers == {c \in Conns : role[c] = "producer" /\ Live(c)}

\* the connection's own sender is what the registry stores under its address
OwnEntry(c) == addr[c] \in DOMAIN peers /\ peers[addr[c]] = c

\* ---- C1 -----------------------------------------------------------------
\* C1: an address is a key of Shared.peers if and only if a live consumer
\* Peer with that address exists, and the sender stored under the key is the
\* one of that live consumer's own queue.
C1_RegistryInvariant ==
    /\ \A a \in Addrs :
         a \in DOMAIN peers <=> \E c \in LiveConsumers : addr[c] = a
    /\ \A a \in DOMAIN peers : peers[a] \in LiveConsumers /\ addr[peers[a]] = a

\* ---- C2 -----------------------------------------------------------------
\* C2: when a producer's stream of L bytes, L an exact multiple of the frame
\* size, has been read to its end and the framer has reported end-of-stream,
\* the framer has emitted exactly L / frame_size frames.
C2_ExactMultipleChunking ==
    \A p \in LiveProducers :
        (st[p] = "done" /\ result[p] = "ok" /\ readN[p] % buffer_size = 0)
            => Len(emitted[p]) = readN[p] \div buffer_size

\* ---- C3 -----------------------------------------------------------------
\* C3: the i-th frame the framer emits is exactly the i-th frame_size chunk
\* of the bytes read, whatever the reads returned; the frames emitted
\* followed by the read buffer are the bytes read, so no byte is duplicated,
\* skipped or reordered, and no short frame is ever emitted.
C3_FrameShapeAndOrder ==
    \A p \in LiveProducers :
        /\ \A i \in 1..Len(emitted[p]) : emitted[p][i] = Chunk(p, i)
        /\ Flatten(emitted[p]) \o rd[p] = StreamBytes(p, 0, readN[p])

\* a stream of frame_size + 1 bytes has ended: one frame, one byte discarded
C3_Witness ==
    \E p \in LiveProducers :
        /\ buffer_size = 2 /\ readN[p] = 3
        /\ st[p] = "done" /\ result[p] = "ok"
        /\ emitted[p] = <<Chunk(p, 1)>> /\ Len(rd[p]) = 1


\* ---- C4 -----------------------------------------------------------------
\* C4: a broadcast appends the frame exactly once to the queue of every
\* consumer registered at that moment and to no other queue, behind every
\* frame the same producer chunked earlier.
C4_FanOut ==
    [][\A p \in Conns :
         Len(emitted'[p]) = Len(emitted[p]) + 1
            => LET F == emitted'[p][Len(emitted'[p])]
               IN  \A c \in Conns :
                     IF c \in Registered(peers)
                     THEN /\ queue'[c] = Append(queue[c], F)
                          /\ \A i \in 1..Len(hist[c]) :
                               ByteSrc(Head(hist[c][i])) = p
                                  => BytePos(Head(hist[c][i])) < BytePos(Head(F))
                     ELSE queue'[c] = queue[c]]_vars

\* two registered consumers have both been sent the same two frames
C4_Witness ==
    \E c \in LiveConsumers, d \in LiveConsumers, p \in LiveProducers :
        c # d /\ Len(hist[c]) = 2 /\ hist[c] = hist[d] /\ hist[c] = emitted[p]

\* ---- C5 -----------------------------------------------------------------
\* C5: when a consumer terminates (its poll ends the task, or its Peer is
\* dropped), every other consumer that is registered stays registered, and
\* no other connection changes its state or gets a result.
C5_Isolation ==
    [][\A c \in Conns :
         (role[c] = "consumer" /\ Live(c) /\ st'[c] # st[c])
            => \A d \in Conns \ {c} :
                 /\ (role[d] = "consumer" /\ Live(d) /\ OwnEntry(d))
                        => OwnEntry(d)'
                 /\ st'[d] = st[d]
                 /\ result'[d] = result[d]]_vars

\* ---- C6 -----------------------------------------------------------------
\* C6: the receiver of every sender stored in the registry still exists, so
\* no unbounded_send of a broadcast fails: no producer panics and the lock
\* of the registry is never poisoned.
C6_SendNeverFails ==
    /\ ~poisoned
    /\ \A a \in DOMAIN peers : RxAlive(peers[a])
    /\ \A p \in Conns : role[p] = "producer" => result[p] # "panic"

\* a consumer hung up and is gone, another one has ended its task and still
\* got a frame sent into its queue by a producer that goes on
C6_Witness ==
    \E c \in Conns, d \in Conns, p \in LiveProducers :
        /\ role[c] = "consumer" /\ st[c] = "gone" /\ result[c] = "ok"
        /\ role[d] = "consumer" /\ st[d] = "done" /\ queue[d] # <<>>
        /\ st[p] = "live" /\ emitted[p] # <<>>

\* ---- C7 -----------------------------------------------------------------
\* C7: a Peer that has been torn down has called peers.remove exactly once
\* and no registry entry refers to its queue; a Peer not yet torn down has
\* not called it.
C7_MandatoryDeregistration ==
    \A c \in Conns :
        /\ st[c] = "gone" => (deregs[c] = 1 /\ c \notin Registered(peers))
        /\ st[c] # "gone" => deregs[c] = 0

\* a consumer ended by the zero-byte write has been torn down
C7_Witness ==
    \E c \in Conns :
        role[c] = "consumer" /\ st[c] = "gone" /\ result[c] = "panic"
            /\ deregs[c] = 1

\* ---- C8 -----------------------------------------------------------------
\* C8: once a consumer's socket is hung up, a notification of the consumer's
\* task is pending, so that its next poll deregisters it without any frame
\* being broadcast to it.
C8_PromptRemoval ==
    \A c \in LiveConsumers : (st[c] = "live" /\ sock[c] = "hup") => runnable[c]

\* ---- C9 -----------------------------------------------------------------
\* C9: the producer is never held back by a consumer, so when its stream has
\* ended every complete frame of the stream has been broadcast.
C9_AllFramesBroadcast ==
    \A p \in LiveProducers :
        (st[p] = "done" /\ result[p] = "ok")
            => /\ Len(emitted[p]) = readN[p] \div buffer_size
               /\ Len(rd[p]) < buffer_size

\* ---- C10 ----------------------------------------------------------------
\* C10: every byte in a consumer's queue, write buffer or socket output
\* belongs to a frame that its producer emitted after the consumer was
\* constructed.
C10_NoReplay ==
    \A c \in LiveConsumers :
        /\ \A i \in 1..Len(queue[c]) : \A k \in 1..Len(queue[c][i]) :
             ChunkOf(queue[c][i][k]) > regAt[c][ByteSrc(queue[c][i][k])]
        /\ \A k \in 1..Len(wr[c]) :
             ChunkOf(wr[c][k]) > regAt[c][ByteSrc(wr[c][k])]
        /\ \A k \in 1..Len(out[c]) :
             ChunkOf(out[c][k]) > regAt[c][ByteSrc(out[c][k])]

\* a consumer built after a producer's first frame has written a later one
C10_Witness ==
    \E c \in LiveConsumers, p \in LiveProducers :
        regAt[c][p] >= 1 /\ out[c] # <<>> /\ ByteSrc(out[c][1]) = p

\* ---- C11 ----------------------------------------------------------------
\* C11: a producer that ends with a read error takes nothing else down: the
\* step in which it fails and the step in which it is torn down leave the
\* registry, every queue and every other connection as they were.
C11_FailureContained ==
    [][\A p \in Conns :
          (role[p] = "producer" /\ Live(p) /\ st'[p] # st[p]
              /\ result'[p] = "err")
            => /\ peers' = peers
               /\ \A d \in Conns \ {p} :
                    /\ queue'[d] = queue[d]
                    /\ st'[d] = st[d]
                    /\ result'[d] = result[d]]_vars

\* ---- C12 ----------------------------------------------------------------
\* C12: when a consumer B was built with the address of an earlier consumer
\* A that is not yet torn down, the teardown of A leaves B's entry in the
\* registry.
C12_ReconnectKeepsEntry ==
    [][\A a, b \in Conns :
          (a < b /\ role[a] = "consumer" /\ role[b] = "consumer"
              /\ Live(a) /\ Live(b) /\ addr[a] = addr[b] /\ OwnEntry(b)
              /\ st'[a] = "gone")
            => OwnEntry(b)']_vars

\* ---- C13 ----------------------------------------------------------------
\* C13: building a producer and tearing it down never changes the registry,
\* whatever its peer address is.
C13_ProducerLeavesRegistry ==
    [][\A p \in Conns :
          (role'[p] = "producer" /\ st'[p] # st[p]) => peers' = peers]_vars

\* ---- C14 ----------------------------------------------------------------
\* C14: what a consumer has written to its socket, followed by its write
\* buffer and by the frames still in its queue, is the sequence of frames
\* that were sent to it: the bytes written followed by the write buffer are
\* the drained frames in order, with no byte lost, repeated or moved.
C14_OutputIntegrity ==
    \A c \in LiveConsumers :
        out[c] \o wr[c] \o Flatten(queue[c]) = Flatten(hist[c])

\* a write took part of a frame and the next one would block
C14_Witness ==
    \E c \in LiveConsumers :
        /\ st[c] = "live" /\ sock[c] = "blocked"
        /\ out[c] # <<>> /\ wr[c] # <<>>
        /\ Len(out[c]) % buffer_size # 0

\* ---- C17 ----------------------------------------------------------------
\* C17: a producer emits a frame only in a turn in which its read buffer
\* holds more than buffer_size bytes; in a turn that leaves it with exactly
\* buffer_size bytes on an open stream it emits nothing, keeps the bytes and
\* stays suspended.
C17_StrictSlicing ==
    [][\A p \in Conns :
          (role[p] = "producer" /\ st[p] = "live" /\ result'[p] # "err")
            => LET held == Len(rd[p]) + (readN'[p] - readN[p])
               IN  /\ emitted'[p] # emitted[p] => held > buffer_size
                   /\ (held = buffer_size /\ ~peerClosed'[p])
                        => /\ emitted'[p] = emitted[p]
                           /\ st'[p] = "live"
                           /\ Len(rd'[p]) = buffer_size]_vars

\* an open stream has delivered exactly one frame's worth of bytes
C17_Witness ==
    \E p \in LiveProducers :
        /\ st[p] = "live" /\ ~peerClosed[p]
        /\ readN[p] = buffer_size /\ Len(rd[p]) = buffer_size
        /\ emitted[p] = <<>>

\* ---- C18 ----------------------------------------------------------------
\* C18: the poll of a consumer whose socket reports a hang-up ends the
\* consumer with the normal result and writes nothing, whatever its queue
\* and write buffer hold, and its teardown leaves it out of the registry.
C18_HangupIsNormalClose ==
    [][\A c \in Conns :
          /\ (role[c] = "consumer" /\ st[c] = "live" /\ sock[c] = "hup"
                /\ st'[c] # st[c])
               => /\ st'[c] = "done"
                  /\ result'[c] = "ok"
                  /\ out'[c] = out[c]
          /\ (role[c] = "consumer" /\ st[c] = "done" /\ result[c] = "ok"
                /\ st'[c] = "gone")
               => /\ c \notin Registered(peers')
                  /\ result'[c] = "ok"]_vars

\* a consumer has completed on a hang-up with bytes left in its write buffer
C18_Witness ==
    \E c \in LiveConsumers :
        /\ st[c] = "done" /\ result[c] = "ok" /\ sock[c] = "hup"
        /\ wr[c] # <<>> /\ out[c] # <<>>

\* ---- C19 ----------------------------------------------------------------
\* C19: a producer that has read the end of its stream and completed has
\* broadcast every complete frame its buffer held: fewer than buffer_size
\* bytes are left in rd.
C19_ProducerTermination ==
    \A p \in LiveProducers :
        (peerClosed[p] /\ st[p] = "done") => Len(rd[p]) < buffer_size

\* ---- C16 ----------------------------------------------------------------
\* no parked live consumer holds unwritten bytes without a pending wake-up
NoLostWakeup ==
    \A c \in Conns :
        (role[c] = "consumer" /\ st[c] = "live" /\ ~runnable[c]
            /\ (queue[c] # <<>> \/ wr[c] # <<>>))
          => (queue[c] = <<>> /\ ioWait[c] /\ sock[c] = "blocked")

\* C16: a live consumer that is not scheduled while its queue or its write
\* buffer holds bytes has a wake-up pending (here always the one of its
\* blocked socket, the queue being empty); and under fair scheduling the
\* n-th frame sent to a consumer is written to its socket unless the socket
\* hangs up or fails or the consumer ends.
C16_DeliveryLiveness ==
    /\ []NoLostWakeup
    /\ \A c \in FairConns : \A n \in 1..MaxLen :
          (role[c] = "consumer" /\ st[c] = "live" /\ Len(hist[c]) >= n)
            ~> \/ st[c] # "live"
               \/ sock[c] \in {"hup", "reset"}
               \/ Len(out[c]) >= n * buffer_size

\* a consumer is parked on its blocked socket with bytes left to write
C16_Witness ==
    \E c \in Conns :
        /\ role[c] = "consumer" /\ st[c] = "live"
        /\ ~runnable[c] /\ ioWait[c] /\ wr[c] # <<>>

\* ---- C15 ----------------------------------------------------------------
\* C15: while a producer is inside the loop of a broadcast the registry is
\* the one it found when it took the lock, and every sender it has passed
\* has got the frame; when the loop ends, the consumers that got the frame
\* are exactly the consumers registered at that instant.
C15_AtomicBroadcast ==
    [][/\ \A p \in busy' :
            /\ peers' = bsnap'[p]
            /\ \A a \in visited'[p] :
                 /\ hist'[peers'[a]] # <<>>
                 /\ hist'[peers'[a]][Len(hist'[peers'[a]])]
                      = emitted'[p][Len(emitted'[p])]
       /\ \A p \in busy \ busy' :
            result'[p] # "panic"
              => /\ peers' = bsnap[p]
                 /\ {d \in Conns : /\ hist'[d] # <<>>
                                   /\ hist'[d][Len(hist'[d])]
                                        = emitted[p][Len(emitted[p])]}
                      = Registered(bsnap[p])]_vars

\* a broadcast has reached one of two registered consumers
C15_Witness ==
    \E p \in busy :
        /\ Cardinality(DOMAIN peers) = 2
        /\ Cardinality(visited[p]) = 1

\* ---- C20 ----------------------------------------------------------------
\* C20: two frames that two consumers have both been sent were sent to both
\* in the same order, whichever producers they come from.
C20_GlobalBroadcastOrder ==
    \A c, d \in LiveConsumers :
        \A i, j \in 1..Len(hist[c]) : \A i2, j2 \in 1..Len(hist[d]) :
            (i < j /\ hist[c][i] = hist[d][i2] /\ hist[c][j] = hist[d][j2])
                => i2 < j2

\* two consumers have each been sent a frame of each of two producers
C20_Witness ==
    \E c, d \in LiveConsumers :
        /\ c # d
        /\ Len(hist[c]) = 2 /\ Len(hist[d]) = 2
        /\ ByteSrc(hist[c][1][1]) # ByteSrc(hist[c][2][1])
        /\ {hist[c][1], hist[c][2]} = {hist[d][1], hist[d][2]}

====
